---- MODULE Spec2Model ----
(***************************************************************************)
(* A model of the VNH5019 motor driver (examples/VNH5019_driver.py) and    *)
(* of the quadrature decoder it registers (examples/rotary_encoder.py).    *)
(*                                                                         *)
(* Units.  Angles are integers counting 1/100 degree, clock readings are   *)
(* integers counting 1/1000 second, and every other float of the source    *)
(* (speeds, gains, duty cycles before int()) is an exact rational <<n, d>> *)
(* with d > 0 and gcd(n, d) = 1.                                           *)
(***************************************************************************)
EXTENDS Integers, Sequences, FiniteSets, TLC

VARIABLES
    in1, in2,            \* levels last written to the two H-bridge pins
    pwm,                 \* level last handed to pwm.setPWM
    stops,               \* number of pi.stop() calls made
    wq,                  \* writes of the output call in progress, in order
    lastCmd,             \* the output command issued last
    in_exit,             \* self.in_exit
    count, angle, prev_angle, prev_current_time, rotation_speed,
    cb,                  \* the callback run in progress: position and locals
    diff, error, prev_time,          \* self.diff, self.error, self.prev_time
    levA, levB, lastGpio,            \* RotaryEncoder fields
    now,                 \* what datetime.now() returns
    pc,                  \* position of the control-loop context
    loc,                 \* arguments and locals of the running operation
    lastCall,            \* the public call made last, and how it ended
    ev,                  \* the decoder event handled last
    cleanups             \* number of cleanup() invocations

vars == <<in1, in2, pwm, stops, wq, lastCmd, in_exit, count, angle, prev_angle,
          prev_current_time, rotation_speed, cb, diff, error, prev_time,
          levA, levB, lastGpio, now, pc, loc, lastCall, ev, cleanups>>

outVars == <<in1, in2, pwm, stops, in_exit>>
encVars == <<count, angle, prev_angle, prev_current_time, rotation_speed, cb>>
decVars == <<levA, levB, lastGpio>>
pidVars == <<diff, error, prev_time>>

----------------------------------------------------------------------------
(* Bounds of the model *)

MaxTime == 2          \* clock readings range over 0..MaxTime
MaxCount == 2         \* decoder edges keep |count| <= MaxCount
MaxCleanups == 2      \* cleanup() is invoked at most this often
MaxRotateTime == 4    \* clock readings while rotate_motor runs
MaxPlantTime == 30    \* clock readings of the noiseless plant
MaxTargetSteps == 2   \* targets range over -MaxTargetSteps..MaxTargetSteps steps
MaxTicksEX == 11      \* ticks of one rotate_motor_EX run
MaxEdgesEX == 2       \* decoder steps during one rotate_motor_EX run
MaxQuadEdges == 12    \* edges of one quadrature stream

(* Program constants *)

GearRatio == 50
MaxDuty == 4095
SettleDuty == 600
SettleTicks == 10
DutyPerSpeed == 5
GlitchLimit == 6000
MaxSpeedDefault == 4095
MinSpeedDefault == 800
RegimeDivisor == 6
AngleUnitsPerDegree == 100
ClockUnitsPerSecond == 1000

OneCount == (360 * 4 * AngleUnitsPerDegree) \div (64 * GearRatio)

----------------------------------------------------------------------------
(* Exact arithmetic standing for the source's float arithmetic *)

Abs(x) == IF x < 0 THEN -x ELSE x

GcdOf[a \in Nat, b \in Nat] == IF b = 0 THEN a ELSE GcdOf[b, a % b]
GCD(a, b) == GcdOf[a, b]

RatOf[n \in Int, d \in Int] ==
    LET g == GCD(Abs(n), Abs(d))
        s == IF d < 0 THEN -1 ELSE 1
    IN  <<(s * n) \div g, (s * d) \div g>>
Rat(n, d) == RatOf[n, d]

RInt(k) == <<k, 1>>
RAdd(x, y) == Rat(x[1] * y[2] + y[1] * x[2], x[2] * y[2])
RSub(x, y) == Rat(x[1] * y[2] - y[1] * x[2], x[2] * y[2])
RMul(x, y) == Rat(x[1] * y[1], x[2] * y[2])
RDiv(x, y) == Rat(x[1] * y[2], x[2] * y[1])
RAbs(x) == <<Abs(x[1]), x[2]>>
RLt(x, y) == x[1] * y[2] < y[1] * x[2]

\* int(x): truncation toward zero
RTruncFloor(x) == x[1] \div x[2]
RTrunc(x) == IF x[1] >= 0 THEN x[1] \div x[2] ELSE -((-x[1]) \div x[2])

----------------------------------------------------------------------------
(* Motor output stage *)

FreeWrites == << <<"in1", 0>>, <<"in2", 0>>, <<"pwm", 0>> >>
BrakeWrites == << <<"in1", 1>>, <<"in2", 1>>, <<"pwm", 0>> >>
ForwardWritesSwapped(pwm_duty_cycle) ==
    << <<"in1", 0>>, <<"in2", 1>>, <<"pwm", Abs(pwm_duty_cycle)>> >>
ForwardWrites(pwm_duty_cycle) ==
    << <<"in1", 1>>, <<"in2", 0>>, <<"pwm", Abs(pwm_duty_cycle)>> >>
BackWrites(pwm_duty_cycle) ==
    << <<"in1", 0>>, <<"in2", 1>>, <<"pwm", Abs(pwm_duty_cycle)>> >>

DriveWrites(pwm_duty_cycle) ==
    IF pwm_duty_cycle > 0 THEN ForwardWrites(pwm_duty_cycle)
    ELSE IF pwm_duty_cycle < 0 THEN BackWrites(pwm_duty_cycle)
    ELSE FreeWrites

DriveCmd(pwm_duty_cycle) ==
    IF pwm_duty_cycle > 0 THEN "forward"
    ELSE IF pwm_duty_cycle < 0 THEN "back"
    ELSE "free"

\* motor_speed: the duty cycle handed to drive()
MotorSpeedDutyFloor(speed) ==
    LET duty_cycle == RTruncFloor(RMul(RInt(DutyPerSpeed), speed))
    IN  IF duty_cycle > MaxDuty THEN MaxDuty
        ELSE IF duty_cycle < -MaxDuty THEN -MaxDuty
        ELSE duty_cycle
MotorSpeedDuty(speed) ==
    LET duty_cycle == RTrunc(RMul(RInt(DutyPerSpeed), speed))
    IN  IF duty_cycle > MaxDuty THEN MaxDuty
        ELSE IF duty_cycle < -MaxDuty THEN -MaxDuty
        ELSE duty_cycle

\* One pin write, PWM write, pi.stop() or flag assignment of the running call
HwWrite ==
    /\ wq # <<>>
    /\ LET w == Head(wq) IN
        /\ in1' = IF w[1] = "in1" THEN w[2] ELSE in1
        /\ in2' = IF w[1] = "in2" THEN w[2] ELSE in2
        /\ pwm' = IF w[1] = "pwm" THEN w[2] ELSE pwm
        /\ stops' = IF w[1] = "stop" THEN stops + 1 ELSE stops
        /\ in_exit' = IF w[1] = "in_exit" THEN TRUE ELSE in_exit
    /\ wq' = Tail(wq)
    /\ UNCHANGED <<lastCmd, encVars, pidVars, decVars, now, pc, loc, lastCall,
                   ev, cleanups>>

----------------------------------------------------------------------------
(* Inputs *)

Duties == {-MaxDuty, -SettleDuty, -1, 0, 1, SettleDuty, MaxDuty}
\* Integer duty arguments, those beyond the 12-bit range of the PWM included
AnyDuties == Duties \cup {-2 * MaxDuty, -(MaxDuty + 1), MaxDuty + 1, 2 * MaxDuty}
Speeds == {RInt(0), Rat(1, 2), Rat(-1, 2), RInt(120), RInt(-120), RInt(819),
           Rat(8191, 10), Rat(-8191, 10), Rat(8192, 10), Rat(-8192, 10),
           RInt(1000), RInt(-1000)}
DriveTimes == {0, 1}

LocInit == [pwm_duty_cycle |-> 0, drive_time |-> 0, start_time |-> 0,
            driven_time |-> 0, rotation_angle |-> 0, ldiff |-> 0, cnt |-> 0,
            consec |-> 0, ticks |-> 0, moved |-> FALSE, edges |-> 0,
            KP |-> RInt(0), KI |-> RInt(0), KD |-> RInt(0),
            KI0 |-> RInt(0), KD0 |-> RInt(0),
            max_speed |-> 0, min_speed |-> 0,
            flag |-> 0, pow |-> RInt(0), speed |-> RInt(0)]

NoCall == [op |-> "none", arg |-> RInt(0), handed |-> 0, raised |-> "none",
           issued |-> FALSE, obs |-> <<0, RInt(0), 0>>, brakes |-> 0]
\* No callback running; committed is <<angle, rotation_speed,
\* prev_current_time>> as the last completed run of callback left them
NoCb == [at |-> "idle", way |-> 0, current_time |-> 0, elapsed_angle |-> 0,
         elapsed_time |-> 0, committed |-> <<0, RInt(0), 0>>]
NoEv == [kind |-> "none", gpio |-> "none", level |-> 0, way |-> 0,
         lastGpio0 |-> "none", speed0 |-> RInt(0), dt |-> 0,
         raised |-> FALSE, net |-> 0, edges |-> 0]

Idle == pc = "idle" /\ wq = <<>>

Init ==
    /\ in1 = 0 /\ in2 = 0 /\ pwm = 0 /\ stops = 0 /\ wq = <<>>
    /\ lastCmd = "none"
    /\ in_exit = FALSE
    /\ count = 0 /\ angle = 0 /\ prev_angle = 0
    /\ prev_current_time = 0 /\ rotation_speed = RInt(0)
    /\ cb = NoCb
    /\ diff = RInt(0) /\ error = RInt(0) /\ prev_time = 0
    /\ levA = 0 /\ levB = 0 /\ lastGpio = "none"
    /\ now = 0
    /\ pc = "idle" /\ loc = LocInit /\ lastCall = NoCall /\ ev = NoEv
    /\ cleanups = 0

----------------------------------------------------------------------------
(* Public output operations, called from the control-loop context *)

free ==
    /\ Idle
    /\ wq' = FreeWrites
    /\ lastCmd' = "free"
    /\ lastCall' = [NoCall EXCEPT !.op = "free"]
    /\ UNCHANGED <<outVars, encVars, pidVars, decVars, now, pc, loc, ev, cleanups>>

brake ==
    /\ Idle
    /\ wq' = BrakeWrites
    /\ lastCmd' = "brake"
    /\ lastCall' = [NoCall EXCEPT !.op = "brake"]
    /\ UNCHANGED <<outVars, encVars, pidVars, decVars, now, pc, loc, ev, cleanups>>

DriveCall(duties) ==
    /\ Idle
    /\ \E pwm_duty_cycle \in duties :
        /\ wq' = DriveWrites(pwm_duty_cycle)
        /\ lastCmd' = DriveCmd(pwm_duty_cycle)
        /\ lastCall' = [NoCall EXCEPT !.op = "drive",
                                      !.arg = RInt(pwm_duty_cycle),
                                      !.handed = pwm_duty_cycle]
    /\ UNCHANGED <<outVars, encVars, pidVars, decVars, now, pc, loc, ev, cleanups>>

drive == DriveCall(Duties)

motor_speed ==
    /\ Idle
    /\ \E speed \in Speeds :
        LET duty_cycle == MotorSpeedDuty(speed) IN
        /\ wq' = DriveWrites(duty_cycle)
        /\ lastCmd' = DriveCmd(duty_cycle)
        /\ lastCall' = [NoCall EXCEPT !.op = "motor_speed", !.arg = speed,
                                      !.handed = duty_cycle]
    /\ UNCHANGED <<outVars, encVars, pidVars, decVars, now, pc, loc, ev, cleanups>>

\* cleanup: returns at once unless in_exit is already set
cleanup ==
    /\ Idle
    /\ cleanups < MaxCleanups
    /\ cleanups' = cleanups + 1
    /\ lastCall' = [NoCall EXCEPT !.op = "cleanup"]
    /\ IF ~in_exit
       THEN UNCHANGED <<wq, lastCmd>>
       ELSE /\ wq' = FreeWrites \o << <<"stop", 1>>, <<"in_exit", 1>> >>
            /\ lastCmd' = "free"
    /\ UNCHANGED <<outVars, encVars, pidVars, decVars, now, pc, loc, ev>>

\* drive_until: entry, up to the loop
DriveUntilCall(duties) ==
    /\ Idle
    /\ \E pwm_duty_cycle \in duties, drive_time \in DriveTimes :
        /\ loc' = [LocInit EXCEPT !.pwm_duty_cycle = pwm_duty_cycle,
                                  !.drive_time = drive_time,
                                  !.start_time = now]
        /\ lastCall' = [NoCall EXCEPT !.op = "drive_until",
                                      !.arg = RInt(pwm_duty_cycle)]
    /\ pc' = "du_loop"
    /\ UNCHANGED <<outVars, wq, lastCmd, encVars, pidVars, decVars, now, ev,
                   cleanups>>

drive_until == DriveUntilCall(Duties)

\* drive_until: read the clock, call drive()
du_loop ==
    /\ pc = "du_loop" /\ wq = <<>>
    /\ loc' = [loc EXCEPT !.driven_time = now - loc.start_time]
    /\ wq' = DriveWrites(loc.pwm_duty_cycle)
    /\ lastCmd' = DriveCmd(loc.pwm_duty_cycle)
    /\ pc' = "du_chk"
    /\ UNCHANGED <<outVars, encVars, pidVars, decVars, now, lastCall, ev, cleanups>>

\* drive_until: leave the loop once the time is up
du_chk ==
    /\ pc = "du_chk" /\ wq = <<>>
    /\ IF loc.driven_time > loc.drive_time
       THEN pc' = "idle" /\ loc' = LocInit
       ELSE pc' = "du_loop" /\ loc' = loc
    /\ UNCHANGED <<outVars, wq, lastCmd, encVars, pidVars, decVars, now,
                   lastCall, ev, cleanups>>

----------------------------------------------------------------------------
(* The clock: datetime.now() is wall-clock time, which may be set back *)

Tick ==
    /\ now < MaxTime
    /\ now' = now + 1
    /\ UNCHANGED <<outVars, wq, lastCmd, encVars, pidVars, decVars, pc, loc,
                   lastCall, ev, cleanups>>

ClockBack ==
    /\ now > 0
    /\ now' = now - 1
    /\ UNCHANGED <<outVars, wq, lastCmd, encVars, pidVars, decVars, pc, loc,
                   lastCall, ev, cleanups>>

----------------------------------------------------------------------------
(* Quadrature decoder and the driver's callback (interrupt context) *)

Gpios == {"A", "B"}

\* RotaryEncoder._pulse: the delta handed to the callback (0: no callback).
\* lA and lB are the stored levels after this edge has been recorded.
PulseWaySameSign(gpio, level, last, lA, lB) ==
    IF gpio # last
    THEN IF gpio = "A" /\ level = 1 THEN (IF lB = 1 THEN 1 ELSE 0)
         ELSE IF gpio = "B" /\ level = 1 THEN (IF lA = 1 THEN 1 ELSE 0)
         ELSE 0
    ELSE 0
PulseWayNoDebounce(gpio, level, last, lA, lB) ==
    IF gpio = "A" /\ level = 1 THEN (IF lB = 1 THEN 1 ELSE 0)
    ELSE IF gpio = "B" /\ level = 1 THEN (IF lA = 1 THEN -1 ELSE 0)
    ELSE 0
PulseWayEveryRise(gpio, level, last, lA, lB) ==
    IF gpio # last
    THEN IF gpio = "A" /\ level = 1 THEN 1
         ELSE IF gpio = "B" /\ level = 1 THEN -1
         ELSE 0
    ELSE 0
PulseWay(gpio, level, last, lA, lB) ==
    IF gpio # last
    THEN IF gpio = "A" /\ level = 1 THEN (IF lB = 1 THEN 1 ELSE 0)
         ELSE IF gpio = "B" /\ level = 1 THEN (IF lA = 1 THEN -1 ELSE 0)
         ELSE 0
    ELSE 0

\* elapsed_angle / elapsed_time in degrees per second, elapsed_time # 0
CallbackSpeed(elapsed_angle, elapsed_time) ==
    RDiv(Rat(elapsed_angle, AngleUnitsPerDegree),
         Rat(elapsed_time, ClockUnitsPerSecond))

\* VNH5019.callback(way). The division raises ZeroDivisionError when the two
\* clock readings are equal: count and angle are already assigned by then,
\* rotation_speed, prev_current_time and prev_angle are not.
callbackAt(way, current_time) ==
    LET elapsed_angle == (count + way) * OneCount - prev_angle
        elapsed_time == current_time - prev_current_time
    IN  /\ count' = count + way
        /\ angle' = (count + way) * OneCount
        /\ cb' = cb
        /\ IF elapsed_time = 0
           THEN UNCHANGED <<rotation_speed, prev_current_time, prev_angle>>
           ELSE /\ rotation_speed' = CallbackSpeed(elapsed_angle, elapsed_time)
                /\ prev_current_time' = current_time
                /\ prev_angle' = (count + way) * OneCount

callback(way) == callbackAt(way, now)

\* What the event record keeps of a callback(way) run at current_time
CallbackEvAt(way, current_time) ==
    [kind |-> "pulse", gpio |-> "none", level |-> 1, way |-> way,
     lastGpio0 |-> lastGpio, speed0 |-> rotation_speed,
     dt |-> current_time - prev_current_time,
     raised |-> (current_time = prev_current_time),
     net |-> ev.net + way, edges |-> 0]
CallbackEv(way) == CallbackEvAt(way, now)

\* _pulse(gpio, level, tick); edges is what the event record keeps as the
\* number of edges of the stream so far
PulseAt(gpio, level, edges) ==
        LET lA == IF gpio = "A" THEN level ELSE levA
            lB == IF gpio = "A" THEN levB ELSE level
            way == PulseWay(gpio, level, lastGpio, lA, lB)
        IN  /\ levA' = lA
            /\ levB' = lB
            /\ lastGpio' = IF gpio # lastGpio THEN gpio ELSE lastGpio
            /\ IF way # 0
               THEN /\ callback(way)
                    /\ ev' = [CallbackEv(way) EXCEPT !.gpio = gpio,
                                                     !.level = level,
                                                     !.edges = edges]
               ELSE /\ UNCHANGED encVars
                    /\ ev' = [NoEv EXCEPT !.kind = "pulse", !.gpio = gpio,
                                          !.level = level,
                                          !.lastGpio0 = lastGpio,
                                          !.net = ev.net,
                                          !.edges = edges]
            /\ UNCHANGED <<outVars, wq, lastCmd, pidVars, now, pc, loc,
                           lastCall, cleanups>>

\* One edge reported by pigpio on either encoder pin
Pulse ==
    \E gpio \in Gpios, level \in {0, 1} :
        /\ Abs(count + PulseWay(gpio, level, lastGpio,
                                IF gpio = "A" THEN level ELSE levA,
                                IF gpio = "A" THEN levB ELSE level))
               <= MaxCount
        /\ PulseAt(gpio, level, 0)

\* reset_angle, called from the control-loop context
reset_angle ==
    /\ Idle
    /\ angle' = 0
    /\ count' = 0
    /\ ev' = [NoEv EXCEPT !.kind = "reset"]
    /\ lastCall' = [NoCall EXCEPT !.op = "reset_angle"]
    /\ UNCHANGED <<outVars, wq, lastCmd, prev_angle, prev_current_time,
                   rotation_speed, cb, pidVars, decVars, now, pc, loc,
                   cleanups>>

\* The decoder hands the callback one step, at a clock reading one unit
\* after the last one (the decoder's own fields are left out of this step)
EncoderStep(maxTime) ==
    \E way \in {1, -1} :
        /\ now < maxTime
        /\ Abs(count + way) <= MaxCount
        /\ now' = now + 1
        /\ callbackAt(way, now + 1)
        /\ ev' = CallbackEvAt(way, now + 1)
        /\ UNCHANGED <<outVars, wq, lastCmd, pidVars, decVars, pc, loc,
                       lastCall, cleanups>>

\* The next edge of a valid quadrature stream turning one way: the channels
\* alternate and each edge toggles its channel.  The first edge chooses the
\* direction: A first gives A-up, B-up, A-down, B-down, B first the reverse.
QuadEdge ==
    \E gpio \in Gpios :
        /\ gpio # lastGpio
        /\ ev.edges < MaxQuadEdges
        /\ PulseAt(gpio, 1 - (IF gpio = "A" THEN levA ELSE levB), ev.edges + 1)

NextQuad ==
    \/ QuadEdge
    \/ Tick

SpecQuad == Init /\ [][NextQuad]_vars

NextEnc ==
    \/ Pulse
    \/ reset_angle
    \/ Tick
    \/ ClockBack

SpecEnc == Init /\ [][NextEnc]_vars

\* An edge reported at a clock reading other than that of the step before
PulseLater ==
    /\ now # prev_current_time
    /\ Pulse

NextEncLater ==
    \/ PulseLater
    \/ reset_angle
    \/ Tick
    \/ ClockBack

SpecEncLater == Init /\ [][NextEncLater]_vars

----------------------------------------------------------------------------
(* The callback statement by statement.  pigpio runs it on its own thread, *)
(* so the control-loop context can run between any two of its statements.  *)

CbUnchanged == UNCHANGED <<outVars, wq, lastCmd, pidVars, decVars, now, pc,
                           loc, lastCall, ev, cleanups>>

\* The decoder calls callback(way); current_time = datetime.now()
cb_enter ==
    /\ cb.at = "idle"
    /\ \E way \in {1, -1} :
        /\ Abs(count + way) <= MaxCount
        /\ cb' = [cb EXCEPT !.at = "count", !.way = way, !.current_time = now]
    /\ UNCHANGED <<count, angle, prev_angle, prev_current_time, rotation_speed>>
    /\ CbUnchanged

\* self.count += way
cb_count ==
    /\ cb.at = "count"
    /\ count' = count + cb.way
    /\ cb' = [cb EXCEPT !.at = "angle"]
    /\ UNCHANGED <<angle, prev_angle, prev_current_time, rotation_speed>>
    /\ CbUnchanged

\* self.angle = self.count * self.one_count
cb_angle ==
    /\ cb.at = "angle"
    /\ angle' = count * OneCount
    /\ cb' = [cb EXCEPT !.at = "elapsed_angle"]
    /\ UNCHANGED <<count, prev_angle, prev_current_time, rotation_speed>>
    /\ CbUnchanged

\* elapsed_angle = self.angle - self.prev_angle
cb_elapsed_angle ==
    /\ cb.at = "elapsed_angle"
    /\ cb' = [cb EXCEPT !.at = "elapsed_time",
                        !.elapsed_angle = angle - prev_angle]
    /\ UNCHANGED <<count, angle, prev_angle, prev_current_time, rotation_speed>>
    /\ CbUnchanged

\* elapsed_time = (current_time - self.prev_current_time) / timedelta(seconds=1)
cb_elapsed_time ==
    /\ cb.at = "elapsed_time"
    /\ cb' = [cb EXCEPT !.at = "speed",
                        !.elapsed_time = cb.current_time - prev_current_time]
    /\ UNCHANGED <<count, angle, prev_angle, prev_current_time, rotation_speed>>
    /\ CbUnchanged

\* self.rotation_speed = elapsed_angle / elapsed_time, or ZeroDivisionError,
\* which ends the run
cb_speed ==
    /\ cb.at = "speed"
    /\ IF cb.elapsed_time = 0
       THEN /\ cb' = [cb EXCEPT !.at = "idle"]
            /\ UNCHANGED rotation_speed
       ELSE /\ cb' = [cb EXCEPT !.at = "prev_current_time"]
            /\ rotation_speed' = CallbackSpeed(cb.elapsed_angle, cb.elapsed_time)
    /\ UNCHANGED <<count, angle, prev_angle, prev_current_time>>
    /\ CbUnchanged

\* self.prev_current_time = current_time
cb_prev_current_time ==
    /\ cb.at = "prev_current_time"
    /\ prev_current_time' = cb.current_time
    /\ cb' = [cb EXCEPT !.at = "prev_angle"]
    /\ UNCHANGED <<count, angle, prev_angle, rotation_speed>>
    /\ CbUnchanged

\* self.prev_angle = self.angle, and the run returns
cb_prev_angle ==
    /\ cb.at = "prev_angle"
    /\ prev_angle' = angle
    /\ cb' = [cb EXCEPT !.at = "idle",
                        !.committed = <<angle, rotation_speed,
                                        prev_current_time>>]
    /\ UNCHANGED <<count, angle, prev_current_time, rotation_speed>>
    /\ CbUnchanged

CbStep ==
    \/ cb_enter
    \/ cb_count
    \/ cb_angle
    \/ cb_elapsed_angle
    \/ cb_elapsed_time
    \/ cb_speed
    \/ cb_prev_current_time
    \/ cb_prev_angle

\* The control-loop context reads the position
get_current_angle ==
    /\ Idle
    /\ lastCall' = [NoCall EXCEPT !.op = "get_current_angle",
                                  !.handed = angle, !.obs = cb.committed]
    /\ UNCHANGED <<outVars, wq, lastCmd, encVars, pidVars, decVars, now, pc,
                   loc, ev, cleanups>>

\* The control-loop context reads the velocity
get_rotation_speed ==
    /\ Idle
    /\ lastCall' = [NoCall EXCEPT !.op = "get_rotation_speed",
                                  !.arg = rotation_speed,
                                  !.obs = cb.committed]
    /\ UNCHANGED <<outVars, wq, lastCmd, encVars, pidVars, decVars, now, pc,
                   loc, ev, cleanups>>

\* reset_angle statement by statement: self.angle = 0
ra_angle ==
    /\ Idle
    /\ angle' = 0
    /\ pc' = "ra_count"
    /\ lastCall' = [NoCall EXCEPT !.op = "reset_angle"]
    /\ UNCHANGED <<outVars, wq, lastCmd, count, prev_angle, prev_current_time,
                   rotation_speed, cb, pidVars, decVars, now, loc, ev,
                   cleanups>>

\* self.count = 0, and reset_angle returns
ra_count ==
    /\ pc = "ra_count"
    /\ count' = 0
    /\ pc' = "idle"
    /\ UNCHANGED <<outVars, wq, lastCmd, angle, prev_angle, prev_current_time,
                   rotation_speed, cb, pidVars, decVars, now, loc, lastCall,
                   ev, cleanups>>

\* A step reported at a clock reading other than that of the step before
cb_enter_later ==
    /\ now # prev_current_time
    /\ cb_enter

NextReset ==
    \/ cb_enter_later
    \/ cb_count
    \/ cb_angle
    \/ cb_elapsed_angle
    \/ cb_elapsed_time
    \/ cb_speed
    \/ cb_prev_current_time
    \/ cb_prev_angle
    \/ ra_angle
    \/ ra_count
    \/ Tick

SpecReset == Init /\ [][NextReset]_vars

NextRead ==
    \/ cb_enter
    \/ cb_count
    \/ cb_angle
    \/ cb_elapsed_angle
    \/ cb_elapsed_time
    \/ cb_speed
    \/ cb_prev_current_time
    \/ cb_prev_angle
    \/ get_current_angle
    \/ get_rotation_speed
    \/ Tick

SpecRead == Init /\ [][NextRead]_vars

----------------------------------------------------------------------------
(* rotate_motor: approach at the caller's duty, then settle at duty 600 *)

RotateDuties == {SettleDuty, MaxDuty}
StepTargets == {k * OneCount : k \in -MaxTargetSteps..MaxTargetSteps}
Targets == StepTargets \cup {OneCount \div 2, -(OneCount + 1)}

\* The two ifs closing a settle tick: the new cnt
SettleCntConsecutive(cnt, ldiff) ==
    IF Abs(ldiff) < OneCount THEN cnt + 1 ELSE 0
SettleCnt(cnt, ldiff) ==
    IF Abs(ldiff) < OneCount THEN cnt + 1 ELSE cnt

RotateCall(duties, targets) ==
    /\ Idle
    /\ \E pwm_duty_cycle \in duties, rotation_angle \in targets :
        /\ loc' = [LocInit EXCEPT !.pwm_duty_cycle = pwm_duty_cycle,
                                  !.rotation_angle = rotation_angle,
                                  !.moved = TRUE]
        /\ lastCall' = [NoCall EXCEPT !.op = "rotate_motor",
                                      !.arg = RInt(pwm_duty_cycle)]
    /\ pc' = "rm_approach"
    /\ UNCHANGED <<outVars, wq, lastCmd, encVars, pidVars, decVars, now, ev,
                   cleanups>>

rotate_motor == RotateCall(RotateDuties, Targets)

\* A tick of either loop, up to the direction command: read the angle, take
\* the difference, call _forward or _back at the given duty
RotateDrive(duty, next) ==
    LET current_angle == angle
        d == loc.rotation_angle - current_angle
    IN  /\ loc' = [loc EXCEPT !.ldiff = d, !.moved = FALSE]
        /\ wq' = IF d > 0 THEN ForwardWrites(duty) ELSE BackWrites(duty)
        /\ lastCmd' = IF d > 0 THEN "forward" ELSE "back"
        /\ pc' = next
        /\ UNCHANGED <<outVars, encVars, pidVars, decVars, now, lastCall, ev,
                       cleanups>>

rm_approach ==
    /\ pc = "rm_approach" /\ wq = <<>>
    /\ RotateDrive(loc.pwm_duty_cycle, "rm_approach_chk")

\* End of an approach tick: free() and leave the loop once within one step
rm_approach_chk ==
    /\ pc = "rm_approach_chk" /\ wq = <<>>
    /\ IF Abs(loc.ldiff) < OneCount
       THEN /\ wq' = FreeWrites
            /\ lastCmd' = "free"
            /\ pc' = "rm_settle"
            /\ loc' = [loc EXCEPT !.cnt = 0, !.consec = 0]
       ELSE /\ pc' = "rm_approach"
            /\ UNCHANGED <<wq, lastCmd, loc>>
    /\ UNCHANGED <<outVars, encVars, pidVars, decVars, now, lastCall, ev,
                   cleanups>>

rm_settle ==
    /\ pc = "rm_settle" /\ wq = <<>>
    /\ RotateDrive(SettleDuty, "rm_settle_chk")

\* End of a settle tick: count it if within one step, brake() and leave on
\* the tenth counted.  consec is the length of the run of ticks within one
\* step that ends with this tick.
rm_settle_chk ==
    /\ pc = "rm_settle_chk" /\ wq = <<>>
    /\ LET cnt == SettleCnt(loc.cnt, loc.ldiff)
           consec == IF Abs(loc.ldiff) < OneCount
                     THEN (IF loc.consec < SettleTicks THEN loc.consec + 1
                           ELSE loc.consec)
                     ELSE 0
       IN  /\ loc' = [loc EXCEPT !.cnt = cnt, !.consec = consec]
           /\ IF Abs(loc.ldiff) < OneCount /\ cnt = SettleTicks
              THEN /\ wq' = BrakeWrites
                   /\ lastCmd' = "brake"
                   /\ pc' = "rm_ret"
              ELSE /\ pc' = "rm_settle"
                   /\ UNCHANGED <<wq, lastCmd>>
    /\ UNCHANGED <<outVars, encVars, pidVars, decVars, now, lastCall, ev,
                   cleanups>>

\* rotate_motor returns
rm_ret ==
    /\ pc = "rm_ret" /\ wq = <<>>
    /\ pc' = "idle"
    /\ loc' = LocInit
    /\ UNCHANGED <<outVars, wq, lastCmd, encVars, pidVars, decVars, now,
                   lastCall, ev, cleanups>>

\* rotate_motor in the control-loop context, the decoder reporting any edges
\* meanwhile
NextRotate ==
    \/ rotate_motor
    \/ rm_approach
    \/ rm_approach_chk
    \/ rm_settle
    \/ rm_settle_chk
    \/ rm_ret
    \/ HwWrite
    \/ EncoderStep(MaxRotateTime)

SpecRotate == Init /\ [][NextRotate]_vars

----------------------------------------------------------------------------
(* rotate_motor against a noiseless plant: between two ticks of the loop   *)
(* the position moves one step in the direction the output stage drives,   *)
(* and stays where it is while the stage is in FREE or BRAKE               *)

PlantWay ==
    IF in1 = 1 /\ in2 = 0 /\ pwm > 0 THEN 1
    ELSE IF in1 = 0 /\ in2 = 1 /\ pwm > 0 THEN -1
    ELSE 0

PlantStep ==
    /\ pc \in {"rm_approach", "rm_settle"} /\ wq = <<>>
    /\ ~loc.moved
    /\ loc' = [loc EXCEPT !.moved = TRUE]
    /\ IF PlantWay # 0
       THEN /\ now < MaxPlantTime
            /\ now' = now + 1
            /\ callbackAt(PlantWay, now + 1)
            /\ ev' = CallbackEvAt(PlantWay, now + 1)
       ELSE UNCHANGED <<now, encVars, ev>>
    /\ UNCHANGED <<outVars, wq, lastCmd, pidVars, decVars, pc, lastCall,
                   cleanups>>

\* One call, with a positive duty and a target that is a whole number of steps
PlantRotateCall ==
    /\ lastCall.op = "none"
    /\ RotateCall(RotateDuties, StepTargets)

PlantApproach == loc.moved /\ rm_approach
PlantSettle == loc.moved /\ rm_settle

NextPlant ==
    \/ PlantRotateCall
    \/ PlantApproach
    \/ rm_approach_chk
    \/ PlantSettle
    \/ rm_settle_chk
    \/ rm_ret
    \/ HwWrite
    \/ PlantStep

\* The control loop is a busy loop that keeps running, and the motor moves
SpecPlant == Init /\ [][NextPlant]_vars /\ WF_vars(NextPlant)

----------------------------------------------------------------------------
(* rotate_motor_EX: proportional position loop around motor_speed_EX *)

Gains == {RInt(0), Rat(1, 2), RInt(5)}
SideGains == {RInt(0), RInt(1)}
TargetsEX == {0, OneCount, 2 * OneCount, -2 * OneCount}

\* The KP check ahead of the loop
RejectsKPNever(KP) == FALSE
RejectsKP(KP) == KP = RInt(0)

\* int(KP * diff), its magnitude brought into [min_speed, max_speed]
ClampPow(KP, ldiff, min_speed, max_speed) ==
    LET pow == RTrunc(RMul(KP, Rat(ldiff, AngleUnitsPerDegree)))
    IN  IF Abs(pow) < min_speed
        THEN (IF pow > 0 THEN min_speed ELSE -min_speed)
        ELSE IF Abs(pow) > max_speed
        THEN (IF pow > 0 THEN max_speed ELSE -max_speed)
        ELSE pow

\* Entry: reset_PIDparams(), cnt = 0, ValueError if KP is 0, flag = 1.
\* KI0 and KD0 keep the caller's KI and KD.
rotate_motor_EX ==
    /\ Idle
    /\ \E rotation_angle \in TargetsEX, KP \in Gains, KID \in SideGains :
        /\ error' = RInt(0)
        /\ diff' = RInt(0)
        /\ prev_time' = now
        /\ IF RejectsKP(KP)
           THEN /\ lastCall' = [NoCall EXCEPT !.op = "rotate_motor_EX",
                                              !.arg = KP,
                                              !.raised = "ValueError"]
                /\ UNCHANGED <<pc, loc>>
           ELSE /\ lastCall' = [NoCall EXCEPT !.op = "rotate_motor_EX",
                                              !.arg = KP]
                /\ pc' = "ex_loop"
                /\ loc' = [LocInit EXCEPT !.rotation_angle = rotation_angle,
                                          !.KP = KP, !.KI = KID, !.KD = KID,
                                          !.KI0 = KID, !.KD0 = KID,
                                          !.max_speed = MaxSpeedDefault,
                                          !.min_speed = MinSpeedDefault,
                                          !.flag = 1]
    /\ UNCHANGED <<outVars, wq, lastCmd, encVars, decVars, now, ev, cleanups>>

\* A tick of the loop, up to the call of motor_speed_EX or the brake()
ex_loop ==
    /\ pc = "ex_loop" /\ wq = <<>>
    /\ loc.ticks < MaxTicksEX
    /\ LET current_angle == angle
           d == loc.rotation_angle - current_angle
           pow0 == ClampPow(loc.KP, d, loc.min_speed, loc.max_speed)
           near == Abs(d) <= OneCount
           flag == IF near THEN 1 ELSE loc.flag
           cnt == IF near THEN loc.cnt + 1 ELSE loc.cnt
           pow == IF flag = 1 THEN Rat(pow0, RegimeDivisor) ELSE RInt(pow0)
           KI == IF flag = 1 THEN RInt(0) ELSE loc.KI
           KD == IF flag = 1 THEN RInt(0) ELSE loc.KD
       IN  /\ loc' = [loc EXCEPT !.ldiff = d, !.flag = flag, !.cnt = cnt,
                                 !.pow = pow, !.KI = KI, !.KD = KD,
                                 !.ticks = loc.ticks + 1]
           /\ IF cnt = SettleTicks
              THEN /\ wq' = BrakeWrites
                   /\ lastCmd' = "brake"
                   /\ lastCall' = [lastCall EXCEPT !.issued = TRUE]
                   /\ pc' = "ex_ret"
              ELSE /\ pc' = "ex_speed"
                   /\ UNCHANGED <<wq, lastCmd, lastCall>>
    /\ UNCHANGED <<outVars, encVars, pidVars, decVars, now, ev, cleanups>>

\* motor_speed_EX: self.diff after the glitch filter
SpeedDiff(speed, current_speed) ==
    LET d == RSub(speed, current_speed)
    IN  IF RLt(RInt(GlitchLimit), RAbs(d)) THEN diff ELSE d

\* motor_speed_EX: int(raw_gain), delta_time # 0 in seconds
RawGain(speed, KP, KI, KD, sdiff, serror, delta_time) ==
    RTrunc(RAdd(RAdd(RAdd(speed, RMul(KP, sdiff)),
                     RMul(RMul(KI, serror), delta_time)),
                RDiv(RMul(KD, serror), delta_time)))

\* motor_speed_EX(speed, KP, KI, KD), called by a loop that goes on at next.
\* The division by delta_time raises ZeroDivisionError when the clock reads
\* what prev_time holds; self.diff and self.error are already assigned by
\* then, and the error leaves the calling loop.
motor_speed_EX(target, KP, KI, KD, next) ==
    /\ \E current_speed \in {rotation_speed}, current_time \in {now} :
       \E sdiff \in {SpeedDiff(target, current_speed)} :
       \E serror \in {RAdd(error, sdiff)} :
       \E delta_time \in {Rat(current_time - prev_time, ClockUnitsPerSecond)} :
           /\ diff' = sdiff
           /\ error' = serror
           /\ IF delta_time = RInt(0)
              THEN /\ lastCall' = [lastCall EXCEPT
                                       !.raised = "ZeroDivisionError"]
                   /\ pc' = "idle"
                   /\ loc' = LocInit
                   /\ UNCHANGED <<prev_time, wq, lastCmd>>
              ELSE \E speed \in {RawGain(target, KP, KI, KD,
                                         sdiff, serror, delta_time)} :
                   \E duty_cycle \in {MotorSpeedDuty(RInt(speed))} :
                       /\ prev_time' = current_time
                       /\ wq' = DriveWrites(duty_cycle)
                       /\ lastCmd' = DriveCmd(duty_cycle)
                       /\ lastCall' = [lastCall EXCEPT !.issued = TRUE,
                                                       !.handed = duty_cycle]
                       /\ pc' = next
                       /\ loc' = [loc EXCEPT !.moved = FALSE]
    /\ UNCHANGED <<outVars, encVars, decVars, now, ev, cleanups>>

\* rotate_motor_EX: the call of motor_speed_EX that ends a tick
ex_speed ==
    /\ pc = "ex_speed" /\ wq = <<>>
    /\ motor_speed_EX(loc.pow, loc.KP, loc.KI, loc.KD, "ex_loop")

\* rotate_motor_EX returns after the brake()
ex_ret ==
    /\ pc = "ex_ret" /\ wq = <<>>
    /\ pc' = "idle"
    /\ loc' = LocInit
    /\ UNCHANGED <<outVars, wq, lastCmd, encVars, pidVars, decVars, now,
                   lastCall, ev, cleanups>>

\* One call on a freshly constructed driver
EXCall ==
    /\ lastCall.op = "none"
    /\ rotate_motor_EX

\* While the loop runs the clock advances at most once per tick, and with
\* it the decoder may hand the callback a step, MaxEdgesEX times in a run
EXEnv ==
    /\ pc \in {"ex_loop", "ex_speed"} /\ wq = <<>>
    /\ ~loc.moved
    /\ now' = now + 1
    /\ \/ /\ loc' = [loc EXCEPT !.moved = TRUE]
          /\ UNCHANGED <<encVars, ev>>
       \/ \E way \in {1, -1} :
            /\ loc.edges < MaxEdgesEX
            /\ Abs(count + way) <= MaxCount
            /\ loc' = [loc EXCEPT !.moved = TRUE, !.edges = loc.edges + 1]
            /\ callbackAt(way, now + 1)
            /\ ev' = CallbackEvAt(way, now + 1)
    /\ UNCHANGED <<outVars, wq, lastCmd, pidVars, decVars, pc, lastCall,
                   cleanups>>

NextEX ==
    \/ EXCall
    \/ ex_loop
    \/ ex_speed
    \/ ex_ret
    \/ HwWrite
    \/ EXEnv

SpecEX == Init /\ [][NextEX]_vars

----------------------------------------------------------------------------
(* drive_motor_speed and drive_motor_speed_EX: hold a speed for a time *)

LoopSpeeds == {RInt(0), RInt(120), RInt(-120), RInt(1000)}

\* drive_motor_speed: entry, up to the loop
drive_motor_speed ==
    /\ Idle
    /\ \E speed \in LoopSpeeds, drive_time \in DriveTimes :
        /\ now + drive_time < MaxTime
        /\ loc' = [LocInit EXCEPT !.speed = speed, !.drive_time = drive_time,
                                  !.start_time = now]
        /\ lastCall' = [NoCall EXCEPT !.op = "drive_motor_speed",
                                      !.arg = speed]
    /\ pc' = "dms_loop"
    /\ UNCHANGED <<outVars, wq, lastCmd, encVars, pidVars, decVars, now, ev,
                   cleanups>>

\* drive_motor_speed: read the clock, call motor_speed(speed)
dms_loop ==
    /\ pc = "dms_loop" /\ wq = <<>>
    /\ LET duty_cycle == MotorSpeedDuty(loc.speed) IN
        /\ wq' = DriveWrites(duty_cycle)
        /\ lastCmd' = DriveCmd(duty_cycle)
        /\ lastCall' = [lastCall EXCEPT !.issued = TRUE,
                                        !.handed = duty_cycle]
    /\ loc' = [loc EXCEPT !.driven_time = now - loc.start_time]
    /\ pc' = "dms_chk"
    /\ UNCHANGED <<outVars, encVars, pidVars, decVars, now, ev, cleanups>>

\* The test closing a tick of either loop: brake() and leave once the time
\* is up, else go round again at again
SpeedLoopChk(again) ==
    /\ IF loc.driven_time > loc.drive_time
       THEN /\ wq' = BrakeWrites
            /\ lastCmd' = "brake"
            /\ lastCall' = [lastCall EXCEPT !.brakes = lastCall.brakes + 1]
            /\ pc' = "speed_ret"
       ELSE /\ pc' = again
            /\ UNCHANGED <<wq, lastCmd, lastCall>>
    /\ UNCHANGED <<outVars, encVars, pidVars, decVars, now, loc, ev, cleanups>>

dms_chk ==
    /\ pc = "dms_chk" /\ wq = <<>>
    /\ SpeedLoopChk("dms_loop")

\* Either loop returns after its brake()
speed_ret ==
    /\ pc = "speed_ret" /\ wq = <<>>
    /\ pc' = "idle"
    /\ loc' = LocInit
    /\ UNCHANGED <<outVars, wq, lastCmd, encVars, pidVars, decVars, now,
                   lastCall, ev, cleanups>>

\* drive_motor_speed_EX: reset_PIDparams(), then as drive_motor_speed
drive_motor_speed_EX ==
    /\ Idle
    /\ \E speed \in LoopSpeeds, drive_time \in DriveTimes,
          KP \in Gains, KID \in SideGains :
        /\ now + drive_time < MaxTime
        /\ loc' = [LocInit EXCEPT !.speed = speed, !.drive_time = drive_time,
                                  !.start_time = now,
                                  !.KP = KP, !.KI = KID, !.KD = KID]
        /\ lastCall' = [NoCall EXCEPT !.op = "drive_motor_speed_EX",
                                      !.arg = speed]
    /\ error' = RInt(0)
    /\ diff' = RInt(0)
    /\ prev_time' = now
    /\ pc' = "dmx_loop"
    /\ UNCHANGED <<outVars, wq, lastCmd, encVars, decVars, now, ev, cleanups>>

\* drive_motor_speed_EX: read the clock
dmx_loop ==
    /\ pc = "dmx_loop" /\ wq = <<>>
    /\ loc' = [loc EXCEPT !.driven_time = now - loc.start_time]
    /\ pc' = "dmx_speed"
    /\ UNCHANGED <<outVars, wq, lastCmd, encVars, pidVars, decVars, now,
                   lastCall, ev, cleanups>>

\* drive_motor_speed_EX: the call of motor_speed_EX
dmx_speed ==
    /\ pc = "dmx_speed" /\ wq = <<>>
    /\ motor_speed_EX(loc.speed, loc.KP, loc.KI, loc.KD, "dmx_chk")

dmx_chk ==
    /\ pc = "dmx_chk" /\ wq = <<>>
    /\ SpeedLoopChk("dmx_loop")

\* One call of either on a freshly constructed driver
SpeedCall ==
    /\ lastCall.op = "none"
    /\ (drive_motor_speed \/ drive_motor_speed_EX)

NextSpeed ==
    \/ SpeedCall
    \/ dms_loop
    \/ dms_chk
    \/ dmx_loop
    \/ dmx_speed
    \/ dmx_chk
    \/ speed_ret
    \/ HwWrite
    \/ Tick

\* The loops are busy loops that keep running, and the clock keeps advancing
SpecSpeed ==
    Init /\ [][NextSpeed]_vars /\ WF_vars(NextSpeed) /\ WF_vars(Tick)

----------------------------------------------------------------------------
(* The operations that take a duty cycle, called with any integer duty *)

drive_any == DriveCall(AnyDuties)
drive_until_any == DriveUntilCall(AnyDuties)
rotate_motor_any == RotateCall(AnyDuties, {0, OneCount})

NextDuty ==
    \/ drive_any
    \/ drive_until_any
    \/ du_loop
    \/ du_chk
    \/ rotate_motor_any
    \/ rm_approach
    \/ rm_approach_chk
    \/ rm_settle
    \/ rm_settle_chk
    \/ rm_ret
    \/ HwWrite
    \/ Tick

SpecDuty == Init /\ [][NextDuty]_vars

----------------------------------------------------------------------------
(* The output operations, write by write *)

Next ==
    \/ free
    \/ brake
    \/ drive
    \/ motor_speed
    \/ cleanup
    \/ drive_until
    \/ du_loop
    \/ du_chk
    \/ HwWrite
    \/ Tick

Spec == Init /\ [][Next]_vars

----------------------------------------------------------------------------
(* Claims about the output stage, under Spec *)

\* C1: no reachable hardware state has both control pins high while the PWM
\* level is nonzero, each pin write and PWM write taken as a separate step.
C1_NoForbiddenState == ~(in1 = 1 /\ in2 = 1 /\ pwm # 0)

\* C2: once drive(d) has returned, for d in [-4095, 4095], the pins and the
\* PWM level read (1, 0, d) for d > 0, (0, 1, |d|) for d < 0 and (0, 0, 0)
\* for d = 0; after brake() they read (1, 1, 0) and after free() (0, 0, 0),
\* whatever the state before the call was.
C2_OutputMapping ==
    Idle =>
        /\ (lastCall.op = "drive" /\ lastCall.handed \in -MaxDuty..MaxDuty) =>
              <<in1, in2, pwm>> =
                  IF lastCall.handed > 0 THEN <<1, 0, lastCall.handed>>
                  ELSE IF lastCall.handed < 0 THEN <<0, 1, -lastCall.handed>>
                  ELSE <<0, 0, 0>>
        /\ lastCall.op = "brake" => <<in1, in2, pwm>> = <<1, 1, 0>>
        /\ lastCall.op = "free" => <<in1, in2, pwm>> = <<0, 0, 0>>

\* C2's case: drive(4095) has returned, having been called in BRAKE or in
\* REVERSE (the command before it left in2 high).
C2_ForwardReached ==
    /\ Idle
    /\ lastCall.op = "drive" /\ lastCall.handed = MaxDuty
    /\ <<in1, in2, pwm>> = <<1, 0, MaxDuty>>

\* C5: once cleanup() has been invoked n >= 1 times, pi.stop() has been
\* called exactly once.
C5_ReleasedExactlyOnce == (Idle /\ cleanups >= 1) => stops = 1

\* C6: once cleanup() has run, from any output state, the output stage is in
\* the FREE configuration (both pins low, PWM level 0).
C6_FreeAfterCleanup ==
    (Idle /\ lastCall.op = "cleanup") => <<in1, in2, pwm>> = <<0, 0, 0>>

\* C10: motor_speed(speed) hands drive() a duty cycle in [-4095, 4095]: 4095
\* when 5*speed > 4095, -4095 when 5*speed < -4095, and otherwise 5*speed
\* with its fraction dropped (int()).
C10_MotorSpeedClamp ==
    lastCall.op = "motor_speed" =>
        LET x == RMul(RInt(5), lastCall.arg)
            d == lastCall.handed
        IN  /\ d \in -4095..4095
            /\ RLt(RInt(4095), x) => d = 4095
            /\ RLt(x, RInt(-4095)) => d = -4095
            /\ (~RLt(RInt(4095), x) /\ ~RLt(x, RInt(-4095))) =>
                  IF x[1] >= 0
                  THEN d * x[2] <= x[1] /\ x[1] < (d + 1) * x[2]
                  ELSE (d - 1) * x[2] < x[1] /\ x[1] <= d * x[2]

\* C10's cases: a speed whose fivefold exceeds 4095 has been clamped and
\* driven, and a negative speed with a fraction has been converted.
C10_ClampReached ==
    /\ Idle
    /\ lastCall.op = "motor_speed" /\ lastCall.arg = Rat(8192, 10)
    /\ lastCall.handed = MaxDuty /\ <<in1, in2, pwm>> = <<1, 0, MaxDuty>>

----------------------------------------------------------------------------
(* Claims about the decoder and the callback, under SpecEnc *)

\* C3: each edge changes the step count by +1 (accepted rising A with B
\* high), by -1 (accepted rising B with A high) or not at all (any other
\* edge), and after each event angle = count * one_count, count being the
\* sum of the deltas emitted.
C3_StepAndPosition ==
    /\ angle = count * OneCount
    /\ count = ev.net
    /\ ev.kind = "pulse" =>
          ev.way =
              IF ev.gpio # ev.lastGpio0 /\ ev.level = 1
                     /\ ev.gpio = "A" /\ levB = 1 THEN 1
              ELSE IF ev.gpio # ev.lastGpio0 /\ ev.level = 1
                     /\ ev.gpio = "B" /\ levA = 1 THEN -1
              ELSE 0

\* C3's case: both directions have been counted, the last edge a
\* counter-clockwise step that took back the clockwise step before it.
C3_BothDirectionsCounted ==
    /\ ev.kind = "pulse" /\ ev.way = -1 /\ ev.gpio = "B"
    /\ ev.net = 0 /\ count = 0 /\ angle = 0

\* The stream of QuadEdge runs A-up, B-up, A-down, B-down
QuadAFirst ==
    \/ lastGpio = "A" /\ levA # levB
    \/ lastGpio = "B" /\ levA = levB

\* C17: of a valid quadrature stream turning one way the decoder emits
\* exactly one delta per four-edge cycle (on the second edge of each), all
\* of one sign for A-up, B-up, A-down, B-down and of the opposite sign for
\* B-up, A-up, B-down, A-down.
C17_OneDeltaPerCycle ==
    ev.edges >= 1 =>
        LET sign == IF QuadAFirst THEN -1 ELSE 1 IN
        /\ ev.net = sign * ((ev.edges + 2) \div 4)
        /\ count = ev.net
        /\ ev.way = IF ev.edges % 4 = 2 THEN sign ELSE 0

\* C17's case: two full cycles of the stream that starts with B-up are in,
\* and two deltas of +1 have been emitted.
C17_TwoCyclesCounted ==
    /\ ev.edges = 8 /\ ~QuadAFirst
    /\ ev.net = 2 /\ count = 2 /\ levA = 0 /\ levB = 0

\* C18: an edge on the channel of the edge accepted last emits no delta, so
\* a run of edges on one channel emits at most one, from its first edge;
\* every edge, accepted or not, updates the stored level of its channel, and
\* after it the channel accepted last is its own.
C18_Debounce ==
    ev.kind = "pulse" =>
        /\ ev.gpio = ev.lastGpio0 => ev.way = 0
        /\ lastGpio = ev.gpio
        /\ ev.level = IF ev.gpio = "A" THEN levA ELSE levB

\* C18's case: after B-up, A-up (one step), A-down, a second A-up with B
\* still high is dropped, and the level of A is stored all the same.
C18_RepeatedRiseDropped ==
    /\ ev.kind = "pulse" /\ ev.gpio = "A" /\ ev.lastGpio0 = "A"
    /\ ev.level = 1 /\ levA = 1 /\ levB = 1
    /\ ev.way = 0 /\ ev.net = 1 /\ count = 1

\* C20: every velocity the callback computes is that of a position change
\* of exactly one step, |angle - prev_angle| = one_count, whatever callbacks
\* and reset_angle() calls came before: its magnitude is one_count divided
\* by the time difference.
C20_VelocityOfOneStep ==
    (ev.kind = "pulse" /\ ev.way # 0 /\ ~ev.raised) =>
        /\ RAbs(RMul(rotation_speed, Rat(ev.dt, ClockUnitsPerSecond)))
              = Rat(OneCount, AngleUnitsPerDegree)
        /\ prev_angle = angle

\* C4: a callback that runs with elapsed time <= 0 since the previous one
\* leaves rotation_speed unchanged and does not raise.
C4_NonPositiveDtKeepsSpeed ==
    (ev.kind = "pulse" /\ ev.way # 0 /\ ev.dt <= 0) =>
        (rotation_speed = ev.speed0 /\ ~ev.raised)
----------------------------------------------------------------------------
(* Claims about rotate_motor, under SpecRotate and SpecPlant *)

\* C7: rotate_motor issues BRAKE and terminates only on a tick at which the
\* 10 most recent settle ticks all had |error| below one_count.
C7_BrakeAfterTenConsecutive == pc = "rm_ret" => loc.consec >= SettleTicks

\* C15: in the approach phase of rotate_motor a drive command at the
\* caller's duty is issued only on a tick whose |target - angle| is at least
\* one_count, FORWARD when the difference is positive and REVERSE otherwise
\* (so none is issued when the error is below one_count on entry); the phase
\* ends at the first tick with the error below one_count, the output FREE.
C15_ApproachDrivesOnlyWhenFar ==
    /\ pc = "rm_approach_chk" =>
          /\ Abs(loc.ldiff) >= OneCount
          /\ lastCmd = IF loc.ldiff > 0 THEN "forward" ELSE "back"
    /\ (pc = "rm_settle" /\ lastCmd = "free") =>
          /\ Abs(loc.ldiff) < OneCount
          /\ wq = <<>> => <<in1, in2, pwm>> = <<0, 0, 0>>

\* rotate_motor has returned to its caller.
RotateReturned == Idle /\ lastCall.op = "rotate_motor"

\* C8: against the noiseless plant, rotate_motor(duty > 0, target), target a
\* whole number of steps, terminates, and its last output command is BRAKE.
C8_TerminatesWithBrake ==
    /\ (pc = "rm_approach") ~> RotateReturned
    /\ [](RotateReturned => (lastCmd = "brake" /\ <<in1, in2, pwm>> = <<1, 1, 0>>))

\* C8's case: the run towards the farthest target has braked, the position
\* having gone all the way there.
C8_BrakedAtFarTarget ==
    /\ pc = "rm_ret" /\ wq = <<>>
    /\ loc.rotation_angle = MaxTargetSteps * OneCount
    /\ Abs(loc.rotation_angle - angle) <= OneCount
    /\ lastCmd = "brake" /\ <<in1, in2, pwm>> = <<1, 1, 0>>

----------------------------------------------------------------------------
(* Claims about rotate_motor_EX, under SpecEX *)

\* C9: rotate_motor_EX called with KP = 0 fails at once with ValueError and
\* makes no output call between entry and the raise: no pin write, no PWM
\* write, no brake, free or drive.
C9_ZeroKPRejected ==
    (lastCall.op = "rotate_motor_EX" /\ lastCall.arg = RInt(0)) =>
        /\ lastCall.raised = "ValueError"
        /\ Idle
        /\ ~lastCall.issued
        /\ lastCmd = "none"
        /\ <<in1, in2, pwm>> = <<0, 0, 0>>

\* C9's case: the call with KP = 0 has been made and has raised.
C9_ValueErrorRaised ==
    /\ lastCall.op = "rotate_motor_EX" /\ lastCall.arg = RInt(0)
    /\ lastCall.raised = "ValueError"
    /\ pc = "idle"

\* C14: on every tick of rotate_motor_EX before the first tick with
\* |error| <= one_count, the target velocity handed to motor_speed_EX is the
\* clamped int(KP * error), of magnitude within [min_speed, max_speed], and
\* the caller's KI and KD are handed on unchanged.
C14_FullGainBeforeFirstNearTick ==
    (pc = "ex_speed" /\ loc.cnt = 0) =>
        /\ loc.pow = RInt(ClampPow(loc.KP, loc.ldiff, loc.min_speed,
                                   loc.max_speed))
        /\ ~RLt(RAbs(loc.pow), RInt(loc.min_speed))
        /\ ~RLt(RInt(loc.max_speed), RAbs(loc.pow))
        /\ loc.KI = loc.KI0 /\ loc.KD = loc.KD0

\* C19: with reset_angle and the callback interleaved statement by
\* statement, whenever neither is in the middle of a run angle equals
\* count * one_count; so once reset_angle has returned the position is
\* one_count times the net steps counted since.
C19_QuiescentAngleMatchesCount ==
    (pc = "idle" /\ cb.at = "idle") => angle = count * OneCount

\* C12: no tick of motor_speed_EX inside a control loop raises, whatever the
\* target, the gains and the clock do, two clock reads returning the same
\* instant included: the only error a loop call ends with is the ValueError
\* raised ahead of the loop.
C12_NoErrorLeavesLoop ==
    /\ lastCall.raised \in {"none", "ValueError"}
    /\ lastCall.raised = "ValueError" =>
          (lastCall.op = "rotate_motor_EX" /\ ~lastCall.issued)

----------------------------------------------------------------------------
(* Claims about the speed-holding loops, under SpecSpeed *)

\* drive_motor_speed or drive_motor_speed_EX has returned or raised
SpeedReturned ==
    /\ Idle
    /\ lastCall.op \in {"drive_motor_speed", "drive_motor_speed_EX"}

\* C16: with a clock that advances past start + drive_time,
\* drive_motor_speed and drive_motor_speed_EX terminate; BRAKE is issued
\* exactly once, as the last output command and only after the elapsed time
\* has exceeded drive_time, so the output is in BRAKE (both pins high,
\* PWM 0) on return.
C16_SpeedLoopEndsInBrake ==
    /\ (pc \in {"dms_loop", "dmx_loop"}) ~> SpeedReturned
    /\ [](pc = "speed_ret" => loc.driven_time > loc.drive_time)
    /\ [](SpeedReturned =>
            /\ lastCall.brakes = 1
            /\ lastCmd = "brake"
            /\ <<in1, in2, pwm>> = <<1, 1, 0>>)

----------------------------------------------------------------------------
(* Claims about out-of-range duty cycles, under SpecDuty *)

\* C13: whatever integer duty drive, drive_until or rotate_motor is called
\* with, |duty| > 4095 included, every level written to the PWM channel is
\* within 0..4095.
C13_PwmLevelWithinRange == pwm \in 0..MaxDuty

----------------------------------------------------------------------------
(* Claims about the two contexts running together, under SpecRead *)

\* C11: whatever get_current_angle() and get_rotation_speed() return while
\* the callback may be anywhere in its run belongs to the last committed
\* sample: never the new angle with the velocity of the sample before.
C11_ReaderSeesCommittedSample ==
    /\ lastCall.op = "get_current_angle" =>
          lastCall.handed = lastCall.obs[1]
    /\ lastCall.op = "get_rotation_speed" =>
          lastCall.arg = lastCall.obs[2]

====
